---- MODULE Spec2Model ----
(***************************************************************************)
(* Model of arduino_hc05_configurer.ino: an interactive configurer for a   *)
(* HC-05 bluetooth module.  The sketch talks to the operator on Serial and *)
(* to the module on a SoftwareSerial link `bt`.                            *)
(*                                                                         *)
(* A byte is modelled as a short string ("N", "O", ... and the control     *)
(* bytes below).  An Arduino String is modelled as the sequence of its     *)
(* `len` bytes; it may hold NUL bytes, because the sketch writes '\0'      *)
(* through operator[] without changing `len`.                              *)
(***************************************************************************)
EXTENDS Integers, Sequences, FiniteSets, TLC

\* ------------------------------------------------------------------ bytes
\* '\0'
NUL == "<0>"
\* '\n' (byte 10)
NL == "<10>"
\* #define LF 13 : the byte the sketch calls LF is byte 13 (carriage return)
LF == "<13>"

\* ---------------------------------------------------------------- bounds
\* the longest input line the reader and fixTermInput are run on in PureSpec
MaxLen == 3

\* at most this many module bytes are outstanding (on the wire or unread)
MaxWire == 4

\* while(bt.available()==0 && i < 100)
WaitPolls == 100

\* ---------------------------------------------- Arduino String operations
\* number of bytes before the first NUL (what strchr / strcpy see)
CStrLen(s) ==
  IF \E k \in 1..Len(s) : s[k] = NUL
    THEN (CHOOSE k \in 1..Len(s) : s[k] = NUL /\ \A j \in 1..(k-1) : s[j] # NUL) - 1
    ELSE Len(s)

\* String::operator[] : an index outside 0..len-1 reads the dummy char 0
CharAt(s, idx) == IF idx >= 0 /\ idx < Len(s) THEN s[idx + 1] ELSE NUL

\* s[idx] = c : an index outside 0..len-1 writes the dummy char (discarded)
SetCharAt(s, idx, c) ==
  IF idx >= 0 /\ idx < Len(s) THEN [s EXCEPT ![idx + 1] = c] ELSE s

\* String::indexOf(char) : strchr on the buffer, -1 when absent
IndexOf(s, c) ==
  IF \E k \in 1..CStrLen(s) : s[k] = c
    THEN (CHOOSE k \in 1..CStrLen(s) : s[k] = c /\ \A j \in 1..(k-1) : s[j] # c) - 1
    ELSE -1

\* if(int p = res.indexOf(LF)){ res[p]='\0'; }
\* the condition is "p is not 0": p = -1 writes the dummy char, p = 0 is skipped
ReplaceLF(s) ==
  LET p == IndexOf(s, LF) IN IF p # 0 THEN SetCharAt(s, p, NUL) ELSE s

\* res += (char)s.read(); followed by the LF replacement: one pass of the
\* body of the loops of readLine and readLineSerial
AppendByte(s, c) == ReplaceLF(Append(s, c))

\* the whole loop of readLine / readLineSerial on a stream whose bytes are all
\* available, starting from the empty String
RECURSIVE ReadFrom(_, _)
ReadFrom(res, stream) ==
  IF stream = <<>> THEN res
  ELSE ReadFrom(AppendByte(res, Head(stream)), Tail(stream))

ReadAll(stream) == ReadFrom(<<>>, stream)

\* an indeterminate byte (heap memory never written)
UNINIT == "<?>"

\* "literal" + rhs : concat(rhs.buffer, rhs.len) copies with strcpy, so only
\* the bytes up to and including the first NUL are copied, while the length
\* grows by rhs.len
StrCat(lit, rhs) ==
  LET n == CStrLen(rhs) IN
    IF n >= Len(rhs) - 1
      THEN lit \o rhs
      ELSE lit \o SubSeq(rhs, 1, n + 1) \o [k \in 1..(Len(rhs) - n - 1) |-> UNINIT]

\* a faulty variant: the scan stops at '\0' only
FixScan_NulOnly(s) == CHOOSE i \in 0..Len(s) :
  /\ CharAt(s, i) = NUL
  /\ \A j \in 0..(i - 1) : CharAt(s, j) # NUL

\* index where the scan of fixTermInput stops
FixScan(s) == CHOOSE i \in 0..Len(s) :
  /\ CharAt(s, i) \in {NUL, NL}
  /\ \A j \in 0..(i - 1) : CharAt(s, j) \notin {NUL, NL}

fixTermInput(s) ==
  LET i == FixScan(s) IN SetCharAt(SetCharAt(s, i, NL), i + 1, NUL)

\* Print::println(const String&) : the len bytes of the string, then "\r\n"
Println(s) == s \o <<LF, NL>>

\* sizeof(response)>=2 : the size of the String object, a compile-time 6
SizeofString == 6

\* a faulty variant: only the first byte is compared
IsOK_FirstByteOnly(response) == CharAt(response, 0) = "O"

\* return sizeof(response)>=2 && response[0]=='O' && response[1]=='K';
IsOK(response) ==
  SizeofString >= 2 /\ CharAt(response, 0) = "O" /\ CharAt(response, 1) = "K"

\* ------------------------------------------------------------ environment
\* line endings of the terminal: none, NL, CR, CR+NL
Endings == {<<>>, <<NL>>, <<LF>>, <<LF, NL>>}
\* the lines the operator may send: the two options, a lower-case letter, a
\* value starting with a space, and a two-byte text under every line ending
Lines ==
  {<<"N">>, <<"N", LF, NL>>, <<"P">>, <<"P", NL>>, <<"n">>, <<" ", "1", NL>>}
    \cup {<<"A", "T">> \o e : e \in Endings}

\* what the module may answer to one command (<<>>: it stays silent)
Replies == {<<>>, <<"O", "K", LF, NL>>, <<"E", LF, NL>>}

\* ------------------------------------------------------- printed lines
\* one Serial.println: a tag for the fixed text, v for the String appended
Line(tag, v) == [t |-> tag, v |-> v]
Text(tag) == Line(tag, <<>>)

dislay_help_enabl_ATMode ==
  <<Text("help_head"), Text("help_1"), Text("help_2"), Text("help_3"), Text("help_4")>>

display_configure_menu ==
  <<Text(""), Text("menu_head"), Text("menu_N"), Text("menu_P"), Text("menu_AT"),
    Text(""), Text("menu_ask")>>

\* ------------------------------------------------------------------ state
VARIABLES
  pc,         \* where the sketch is
  caller,     \* who called bt_sendATCommand: "probe", "raw", "name", "pswd"
  i,          \* bt_sendATCommand: the poll counter
  response,   \* bt_sendATCommand: the String the reply is read into
  ok,         \* the value bt_sendATCommand returned
  r,          \* bt_checkATenabled: r, kept until the next probe is sent
  userInput,  \* loop(): userInput
  len,        \* loop(): len
  sInput,     \* setModuleName / setPassKey: userInput
  sLen,       \* setModuleName / setPassKey: len
  handler,    \* the branch of the switch taken in this iteration
  txLog,      \* the commands written to bt since the last probe, probe included
  out,        \* the lines printed on Serial since the last probe
  heard,      \* a byte was available on bt during the current exchange
  silent,     \* the module has not produced a byte so far
  curLine,    \* the line the operator sent last
  opWire,     \* operator bytes still on their way to Serial
  serialRx,   \* operator bytes Serial.available() counts
  btWire,     \* module bytes still on their way to bt
  btRx,       \* module bytes bt.available() counts
  old,        \* module bytes outstanding when the current command was written
  inTime,     \* a byte was available when the wait loop ended
  fx          \* the reader and fixTermInput run on one input line (PureSpec)

vars == <<pc, caller, i, response, ok, r, userInput, len, sInput, sLen, handler,
          txLog, out, heard, silent, curLine, opWire, serialRx, btWire, btRx,
          old, inTime, fx>>

prog == <<pc, caller, i, response, ok, r, userInput, len, sInput, sLen, handler,
          txLog, out>>

\* the readers and fixTermInput are not run on their own in the sketch
FxOff == [stage |-> "off", src |-> <<>>, buf |-> <<>>, fix1 |-> <<>>, fix2 |-> <<>>]

\* the state after setup()
Boot ==
  /\ pc = "loop" /\ caller = "none" /\ i = 0 /\ response = <<>> /\ ok = FALSE
  /\ r = <<>> /\ userInput = <<>> /\ len = 0 /\ sInput = <<>> /\ sLen = 0
  /\ handler = "none" /\ txLog = <<>> /\ out = <<>> /\ heard = FALSE
  /\ silent = TRUE
  /\ curLine = <<>> /\ opWire = <<>> /\ serialRx = <<>>
  /\ btWire = <<>> /\ btRx = <<>>
  /\ old = 0 /\ inTime = FALSE

Init == Boot /\ fx = FxOff

\* ------------------------------------------------------- bt_sendATCommand
\* bt.println(cmd); unsigned int i=0;  The module then decides on its answer.
SendAT(who, cmd) ==
  /\ txLog' = Append(txLog, [src |-> who, bytes |-> Println(cmd)])
  /\ \E reply \in Replies :
       /\ Len(btWire) + Len(btRx) + Len(reply) <= MaxWire
       /\ btWire' = btWire \o reply
       /\ silent' = (silent /\ reply = <<>>)
  /\ caller' = who
  /\ i' = 0
  /\ heard' = (btRx # <<>>)
  /\ old' = Len(btWire) + Len(btRx)
  /\ inTime' = FALSE
  /\ pc' = "at_wait"

\* a faulty variant: i <= 100 instead of i < 100
WaitBudget_OneMore(n) == n <= WaitPolls

\* while(bt.available()==0 && i < 100){ delay(10); i++; }
WaitBudget(n) == n < WaitPolls

WaitResponse ==
  /\ pc = "at_wait"
  /\ IF btRx = <<>> /\ WaitBudget(i)
       THEN /\ i' = i + 1
            /\ UNCHANGED <<pc, response, inTime>>
       ELSE /\ pc' = "at_read"
            /\ response' = <<>>
            /\ i' = 0          \* i is not read after the loop
            /\ inTime' = (btRx # <<>>)
  /\ UNCHANGED <<caller, ok, r, userInput, len, sInput, sLen, handler, txLog, out,
                 heard, curLine, opWire, serialRx, btWire, btRx>>
  /\ UNCHANGED <<silent, old, fx>>

\* readLine(bt, response), one pass of its loop, and the return statement
readLine ==
  /\ pc = "at_read"
  /\ IF btRx # <<>>
       THEN /\ response' = AppendByte(response, Head(btRx))
            /\ btRx' = Tail(btRx)
            /\ UNCHANGED <<pc, ok>>
       ELSE /\ ok' = IsOK(response)
            /\ pc' = "at_ret"
            /\ UNCHANGED <<response, btRx>>
  /\ UNCHANGED <<caller, i, r, userInput, len, sInput, sLen, handler, txLog, out,
                 heard, curLine, opWire, serialRx, btWire>>
  /\ UNCHANGED <<silent, old, inTime, fx>>

\* ------------------------------------------------------------------ loop()
\* if(bt_checkATenabled()) : the probe is sent
Loop ==
  /\ pc = "loop"
  /\ txLog' = <<[src |-> "probe", bytes |-> Println(<<"A", "T">>)]>>
  /\ \E reply \in Replies :
       /\ Len(btWire) + Len(btRx) + Len(reply) <= MaxWire
       /\ btWire' = btWire \o reply
       /\ silent' = (silent /\ reply = <<>>)
  /\ caller' = "probe"
  /\ i' = 0
  /\ heard' = (btRx # <<>>)
  /\ old' = Len(btWire) + Len(btRx)
  /\ inTime' = FALSE
  /\ pc' = "at_wait"
  /\ out' = <<>>
  /\ r' = <<>>
  /\ UNCHANGED <<response, ok, userInput, len, sInput, sLen, handler,
                 curLine, opWire, serialRx, btRx, fx>>

\* a faulty variant: the mode detector reports command mode whatever the probe returned
bt_checkATenabled_Blind(result) == TRUE

\* a faulty variant: the result of the probe is inverted
bt_checkATenabled_Inverted(result) == ~result

\* boolean isInAt = bt_sendATCommand(String("AT"), r); return isInAt;
bt_checkATenabled(result) == result

\* the branch of loop() on the probe's result
ModeBranch ==
  /\ pc = "at_ret" /\ caller = "probe"
  /\ r' = response
  /\ IF bt_checkATenabled(ok)
       THEN /\ out' = out \o <<Text("at_mode_ok")>> \o display_configure_menu
            /\ pc' = "menu_wait"
       ELSE /\ out' = out \o dislay_help_enabl_ATMode \o <<Text("retry_3s")>>
            /\ pc' = "iter_end"
  /\ caller' = "none" /\ i' = 0 /\ response' = <<>> /\ ok' = FALSE /\ heard' = FALSE
  /\ old' = 0 /\ inTime' = FALSE
  /\ UNCHANGED <<userInput, len, sInput, sLen, handler, txLog,
                 curLine, opWire, serialRx, btWire, btRx>>
  /\ UNCHANGED <<silent, fx>>

\* a faulty variant: the busy-wait does not wait
InputReady_Always == TRUE

\* while(Serial.available()<=0){} and while(Serial.available()==0){} end
InputReady == serialRx # <<>>

MenuWait ==
  /\ pc = "menu_wait"
  /\ InputReady
  /\ pc' = "menu_read"
  /\ UNCHANGED <<caller, i, response, ok, r, userInput, len, sInput, sLen, handler,
                 txLog, out, heard, curLine, opWire, serialRx, btWire, btRx>>
  /\ UNCHANGED <<silent, old, inTime, fx>>

\* readLineSerial(userInput), one pass of its loop
MenuRead ==
  /\ pc = "menu_read"
  /\ IF serialRx # <<>>
       THEN /\ userInput' = AppendByte(userInput, Head(serialRx))
            /\ serialRx' = Tail(serialRx)
            /\ len' = len + 1
            /\ pc' = pc
       ELSE /\ pc' = "dispatch"
            /\ UNCHANGED <<userInput, serialRx, len>>
  /\ UNCHANGED <<caller, i, response, ok, r, sInput, sLen, handler,
                 txLog, out, heard, curLine, opWire, btWire, btRx>>
  /\ UNCHANGED <<silent, old, inTime, fx>>

\* a faulty variant: the option letters are compared without regard to case
Option_AnyCase(u) ==
  CASE CharAt(u, 0) \in {"N", "n"} -> "name"
    [] CharAt(u, 0) \in {"P", "p"} -> "pswd"
    [] OTHER -> "raw"

\* switch((char)userInput[0])
Option(u) ==
  CASE CharAt(u, 0) = "N" -> "name"
    [] CharAt(u, 0) = "P" -> "pswd"
    [] OTHER -> "raw"

Dispatch ==
  /\ pc = "dispatch"
  /\ IF len >= 1
       THEN LET u == fixTermInput(userInput) IN
            /\ userInput' = u
            /\ handler' = Option(u)
            /\ \/ /\ Option(u) = "name"
                  /\ out' = Append(out, Text("ask_name"))
                  /\ pc' = "set_wait"
                  /\ UNCHANGED <<caller, i, txLog, heard, silent, btWire, old, inTime>>
               \/ /\ Option(u) = "pswd"
                  /\ out' = Append(out, Text("ask_passkey"))
                  /\ pc' = "set_wait"
                  /\ UNCHANGED <<caller, i, txLog, heard, silent, btWire, old, inTime>>
               \/ /\ Option(u) = "raw"
                  /\ out' = out \o <<Text("no_such_option"), Line("AT > ", u)>>
                  /\ SendAT("raw", u)
       ELSE /\ pc' = "iter_end"
            /\ UNCHANGED <<userInput, handler, out, caller, i, txLog, heard, silent,
                           btWire, old, inTime>>
  /\ UNCHANGED <<response, ok, r, len, sInput, sLen, curLine, opWire, serialRx, btRx,
                 fx>>

\* a faulty variant: a raw command that was not classified a success is
\* written a second time
RawReturn_Retry ==
  /\ pc = "at_ret" /\ caller = "raw"
  /\ IF ~ok /\ Len(txLog) < 3
       THEN /\ SendAT("raw", userInput)
            /\ UNCHANGED out
       ELSE /\ out' = Append(out, Line("reply", response))
            /\ pc' = "iter_end"
            /\ i' = 0 /\ heard' = FALSE /\ old' = 0 /\ inTime' = FALSE
            /\ UNCHANGED <<caller, txLog, btWire, silent>>
  /\ UNCHANGED <<response, ok, r, userInput, len, sInput, sLen, handler,
                 curLine, opWire, serialRx, btRx, fx>>

\* default: ... Serial.println(repAT);
RawReturn ==
  /\ pc = "at_ret" /\ caller = "raw"
  /\ out' = Append(out, Line("reply", response))
  /\ pc' = "iter_end"
  /\ i' = 0 /\ heard' = FALSE /\ old' = 0 /\ inTime' = FALSE
  /\ UNCHANGED <<caller, response, ok, r, userInput, len, sInput, sLen, handler,
                 txLog, curLine, opWire, serialRx, btWire, btRx>>
  /\ UNCHANGED <<silent, fx>>

\* ------------------------------------------- setModuleName and setPassKey
SetWait ==
  /\ pc = "set_wait"
  /\ InputReady
  /\ pc' = "set_read"
  /\ UNCHANGED <<caller, i, response, ok, r, userInput, len, sInput, sLen, handler,
                 txLog, out, heard, curLine, opWire, serialRx, btWire, btRx>>
  /\ UNCHANGED <<silent, old, inTime, fx>>

SetRead ==
  /\ pc = "set_read"
  /\ IF serialRx # <<>>
       THEN /\ sInput' = AppendByte(sInput, Head(serialRx))
            /\ serialRx' = Tail(serialRx)
            /\ sLen' = sLen + 1
            /\ pc' = pc
       ELSE /\ pc' = "set_check"
            /\ UNCHANGED <<sInput, serialRx, sLen>>
  /\ UNCHANGED <<caller, i, response, ok, r, userInput, len, handler,
                 txLog, out, heard, curLine, opWire, btWire, btRx>>
  /\ UNCHANGED <<silent, old, inTime, fx>>

\* a faulty variant: the test on the first character is missing
Accepts_AnyFirst(n, u) == n >= 1

\* if(len>=1 && userInput[0]!=' ')
Accepts(n, u) == n >= 1 /\ CharAt(u, 0) # " "

Prefix(h) ==
  IF h = "name" THEN <<"A", "T", "+", "N", "A", "M", "E", "=">>
                ELSE <<"A", "T", "+", "P", "S", "W", "D", "=">>

SetSend ==
  /\ pc = "set_check"
  /\ IF Accepts(sLen, sInput)
       THEN LET u == fixTermInput(sInput) IN
            /\ sInput' = u
            /\ SendAT(handler, StrCat(Prefix(handler), u))
       ELSE /\ pc' = "iter_end"
            /\ UNCHANGED <<sInput, caller, i, txLog, heard, silent, btWire, old,
                           inTime>>
  /\ UNCHANGED <<response, ok, r, userInput, len, sLen, handler, out,
                 curLine, opWire, serialRx, btRx, fx>>

\* a faulty variant: setModuleName prints the reply inside the if, on success only
NameReturn_ReplyOnSuccess ==
  /\ pc = "at_ret" /\ caller = "name"
  /\ out' = out \o (IF ok THEN <<Line("name_is_now", sInput), Line("reply", response)>>
                          ELSE <<>>)
  /\ pc' = "iter_end"
  /\ i' = 0 /\ heard' = FALSE /\ old' = 0 /\ inTime' = FALSE
  /\ UNCHANGED <<caller, response, ok, r, userInput, len, sInput, sLen, handler,
                 txLog, curLine, opWire, serialRx, btWire, btRx>>
  /\ UNCHANGED <<silent, fx>>

\* setModuleName: if( bt_sendATCommand(cmdAT, repAT) ){...} Serial.println(repAT);
NameReturn ==
  /\ pc = "at_ret" /\ caller = "name"
  /\ out' = out \o (IF ok THEN <<Line("name_is_now", sInput)>> ELSE <<>>)
                \o <<Line("reply", response)>>
  /\ pc' = "iter_end"
  /\ i' = 0 /\ heard' = FALSE /\ old' = 0 /\ inTime' = FALSE
  /\ UNCHANGED <<caller, response, ok, r, userInput, len, sInput, sLen, handler,
                 txLog, curLine, opWire, serialRx, btWire, btRx>>
  /\ UNCHANGED <<silent, fx>>

\* a faulty variant: setPassKey prints its confirmation whatever the result
PswdReturn_ConfirmAlways ==
  /\ pc = "at_ret" /\ caller = "pswd"
  /\ out' = Append(out, Line("passkey_is_now", sInput))
  /\ pc' = "iter_end"
  /\ i' = 0 /\ heard' = FALSE /\ old' = 0 /\ inTime' = FALSE
  /\ UNCHANGED <<caller, response, ok, r, userInput, len, sInput, sLen, handler,
                 txLog, curLine, opWire, serialRx, btWire, btRx>>
  /\ UNCHANGED <<silent, fx>>

\* setPassKey: if( bt_sendATCommand(cmdAT, repAT) ){...}
PswdReturn ==
  /\ pc = "at_ret" /\ caller = "pswd"
  /\ out' = out \o (IF ok THEN <<Line("passkey_is_now", sInput)>> ELSE <<>>)
  /\ pc' = "iter_end"
  /\ i' = 0 /\ heard' = FALSE /\ old' = 0 /\ inTime' = FALSE
  /\ UNCHANGED <<caller, response, ok, r, userInput, len, sInput, sLen, handler,
                 txLog, curLine, opWire, serialRx, btWire, btRx>>
  /\ UNCHANGED <<silent, fx>>

\* delay(100) or delay(3000); Serial.println(""); and loop() returns
EndIteration ==
  /\ pc = "iter_end"
  /\ out' = Append(out, Text(""))
  /\ pc' = "loop"
  /\ caller' = "none" /\ response' = <<>> /\ ok' = FALSE
  /\ userInput' = <<>> /\ len' = 0 /\ sInput' = <<>> /\ sLen' = 0
  /\ handler' = "none"
  /\ UNCHANGED <<i, r, txLog, heard, curLine, opWire, serialRx, btWire, btRx>>
  /\ UNCHANGED <<silent, old, inTime, fx>>

\* ------------------------------------------------------ environment steps
\* the operator answers a prompt with one line: a line is sent only while the
\* sketch waits for input and nothing of an earlier line is left unread
OperatorSend ==
  /\ pc \in {"menu_wait", "set_wait"}
  /\ opWire = <<>> /\ serialRx = <<>>
  /\ \E l \in Lines : opWire' = l /\ curLine' = l
  /\ UNCHANGED <<prog, heard, serialRx, btWire, btRx>>
  /\ UNCHANGED <<silent, old, inTime, fx>>

\* one operator byte reaches the UART
SerialArrive ==
  /\ opWire # <<>>
  /\ serialRx' = Append(serialRx, Head(opWire))
  /\ opWire' = Tail(opWire)
  /\ UNCHANGED <<prog, heard, curLine, btWire, btRx>>
  /\ UNCHANGED <<silent, old, inTime, fx>>

\* one module byte reaches the SoftwareSerial receiver
ModuleDeliver ==
  /\ btWire # <<>>
  /\ btRx' = Append(btRx, Head(btWire))
  /\ btWire' = Tail(btWire)
  /\ heard' = (heard \/ pc \in {"at_wait", "at_read"})
  /\ UNCHANGED <<prog, curLine, opWire, serialRx>>
  /\ UNCHANGED <<silent, old, inTime, fx>>

Sketch ==
  \/ Loop \/ WaitResponse \/ readLine \/ ModeBranch
  \/ MenuWait \/ MenuRead \/ Dispatch \/ RawReturn
  \/ SetWait \/ SetRead \/ SetSend \/ NameReturn \/ PswdReturn
  \/ EndIteration

Next == Sketch \/ OperatorSend \/ SerialArrive \/ ModuleDeliver

Spec == Init /\ [][Next]_vars

\* the sketch keeps running: the board executes loop() for ever
FairSpec == Spec /\ WF_vars(Sketch)

TypeOK ==
  /\ pc \in {"loop", "at_wait", "at_read", "at_ret", "menu_wait", "menu_read",
             "dispatch", "set_wait", "set_read", "set_check", "iter_end"}
  /\ caller \in {"none", "probe", "raw", "name", "pswd"}
  /\ handler \in {"none", "raw", "name", "pswd"}
  /\ i \in 0..WaitPolls
  /\ ok \in BOOLEAN /\ heard \in BOOLEAN /\ silent \in BOOLEAN
  /\ Len(btWire) + Len(btRx) <= MaxWire

\* every byte written to bt is a determined one: StrCat never has to copy a
\* String with a NUL before its last byte
NoIndeterminateByte ==
  \A k \in 1..Len(txLog) : \A j \in 1..Len(txLog[k].bytes) : txLog[k].bytes[j] # UNINIT

\* ------------------------------------- the reader and fixTermInput alone
\* the bytes of an input line: two letters and the two line-ending bytes
PureBytes == {"A", "T", NL, LF}

RECURSIVE SeqsUpTo(_)
SeqsUpTo(n) ==
  IF n = 0 THEN {<<>>}
  ELSE LET shorter == SeqsUpTo(n - 1) IN
         shorter \cup {Append(q, b) : q \in {x \in shorter : Len(x) = n - 1},
                                        b \in PureBytes}

PureInputs == SeqsUpTo(MaxLen)

PureInit ==
  /\ Boot
  /\ \E s \in PureInputs :
       fx = [stage |-> "src", src |-> s, buf |-> <<>>, fix1 |-> <<>>, fix2 |-> <<>>]

\* len = readLineSerial(userInput) with the whole line in the receive buffer
PureRead ==
  /\ fx.stage = "src"
  /\ fx' = [fx EXCEPT !.stage = "read", !.buf = ReadAll(fx.src)]
  /\ UNCHANGED <<prog, heard, silent, curLine, opWire, serialRx, btWire, btRx,
                 old, inTime>>

\* fixTermInput(userInput);
PureFix ==
  /\ fx.stage = "read"
  /\ fx' = [fx EXCEPT !.stage = "fixed", !.fix1 = fixTermInput(fx.buf)]
  /\ UNCHANGED <<prog, heard, silent, curLine, opWire, serialRx, btWire, btRx,
                 old, inTime>>

\* fixTermInput on its own result
PureFixAgain ==
  /\ fx.stage = "fixed"
  /\ fx' = [fx EXCEPT !.stage = "fixed2", !.fix2 = fixTermInput(fx.fix1)]
  /\ UNCHANGED <<prog, heard, silent, curLine, opWire, serialRx, btWire, btRx,
                 old, inTime>>

PureNext == PureRead \/ PureFix \/ PureFixAgain

PureSpec == PureInit /\ [][PureNext]_vars

\* ----------------------------------------------------------------- claims
\* the first two bytes of a String are 'O' then 'K'
StartsWithOK(s) == Len(s) >= 2 /\ s[1] = "O" /\ s[2] = "K"

\* C1: bt_sendATCommand returns true exactly when the captured response has
\* at least 2 characters and they begin with 'O','K'; the empty response and
\* a 1-character response give false.
C1_TrueIffStartsWithOK ==
  pc = "at_ret" => (ok <=> StartsWithOK(response))

\* the drain stopped after the 'O' of a reply: a 1-character response, false
C1_Witness == pc = "at_ret" /\ response = <<"O">> /\ ~ok

\* C2: when no byte is available on bt from the write of a command to the
\* return of bt_sendATCommand, the wait loop ends after exactly 100 polls
\* (never more), the drain finds nothing and the result is false.
C2_SilentModuleTimesOut ==
  /\ [](i <= WaitPolls)
  /\ [][(pc = "at_wait" /\ pc' = "at_read" /\ ~heard') => i = WaitPolls]_vars
  /\ []((pc = "at_ret" /\ ~heard) => (response = <<>> /\ ~ok))

\* an exchange has returned without a byte from the module
C2_Witness == pc = "at_ret" /\ ~heard /\ response = <<>> /\ ~ok

\* the lines printed when the probe succeeded
MenuShown == <<Text("at_mode_ok")>> \o display_configure_menu

\* the sketch is past the probe of the current iteration, in the READY branch
InReady ==
  \/ pc \in {"menu_wait", "menu_read", "dispatch", "set_wait", "set_read", "set_check"}
  \/ (pc \in {"at_wait", "at_read", "at_ret"} /\ caller # "probe")
  \/ Len(txLog) > 1
  \/ \E k \in 1..Len(out) : out[k].t \in {"at_mode_ok", "menu_head", "menu_ask"}

\* C3: an iteration starts with exactly one probe "AT"; the menu, the read of
\* operator input and every operator-derived command happen only when the
\* reply to the probe of that same iteration was classified a success.
C3_ProbeFirstAndFresh ==
  /\ pc # "loop" =>
       /\ Len(txLog) >= 1
       /\ txLog[1] = [src |-> "probe", bytes |-> <<"A", "T", LF, NL>>]
  /\ \A k \in 2..Len(txLog) : txLog[k].src # "probe"
  /\ InReady => StartsWithOK(r)

\* a name command has been written after the probe of the iteration
C3_Witness == Len(txLog) = 2 /\ txLog[2].src = "name" /\ StartsWithOK(r)

\* loop() has read a line of at least one byte and gone through the switch
Dispatched == len >= 1 /\ pc \notin {"menu_read", "dispatch"}

\* the lines printed by the handlers
Printed(tag) == \E k \in 1..Len(out) : out[k].t = tag

\* C4: in the READY state a line of at least one byte is dispatched on its
\* first character alone, case-sensitively: 'N' runs setModuleName, 'P' runs
\* setPassKey, anything else (also 'n') sends the whole line as a raw command
\* through bt_sendATCommand; exactly one of the three runs.
C4_DispatchOnFirstChar ==
  Dispatched =>
    LET c == userInput[1] IN
    /\ c = "N" =>
         /\ handler = "name" /\ Printed("ask_name")
         /\ ~Printed("ask_passkey") /\ ~Printed("no_such_option")
         /\ \A k \in 2..Len(txLog) : txLog[k].src = "name"
    /\ c = "P" =>
         /\ handler = "pswd" /\ Printed("ask_passkey")
         /\ ~Printed("ask_name") /\ ~Printed("no_such_option")
         /\ \A k \in 2..Len(txLog) : txLog[k].src = "pswd"
    /\ c \notin {"N", "P"} =>
         /\ handler = "raw" /\ Printed("no_such_option")
         /\ ~Printed("ask_name") /\ ~Printed("ask_passkey")
         /\ Len(txLog) = 2
         /\ txLog[2] = [src |-> "raw", bytes |-> userInput \o <<LF, NL>>]

\* a lower-case 'n' went to the raw branch
C4_Witness == Dispatched /\ userInput[1] = "n" /\ handler = "raw"

\* a setter has read its input and found it empty or starting with a space
Rejected ==
  /\ handler \in {"name", "pswd"}
  /\ pc \notin {"set_wait", "set_read", "set_check"}
  /\ (sLen = 0 \/ sInput[1] = " ")

\* C5: a setter whose input is empty or starts with a space writes no command
\* to bt, prints neither a confirmation nor a response, and changes nothing.
C5_RejectedInputDoesNothing ==
  Rejected =>
    /\ pc = "iter_end"
    /\ Len(txLog) = 1
    /\ out = MenuShown \o <<Text(IF handler = "name" THEN "ask_name" ELSE "ask_passkey")>>
    /\ response = <<>> /\ ~ok /\ caller = "none"

\* setPassKey has returned on an input starting with a space
C5_Witness == Rejected /\ handler = "pswd" /\ sInput[1] = " " /\ pc = "iter_end"

\* the bytes of s before its first line-ending or NUL byte
Body(s) ==
  LET stops == {k \in 1..Len(s) : s[k] \in {NUL, NL, LF}} IN
    IF stops = {} THEN s
    ELSE SubSeq(s, 1, (CHOOSE k \in stops : \A j \in stops : k <= j) - 1)

\* the setter of this iteration read the whole line the operator sent
SetterReadFullLine == sLen = Len(curLine) /\ opWire = <<>> /\ serialRx = <<>>

\* C6: the bytes written to bt by a setter that accepted the value V are the
\* prefix, V and one single line terminator, and nothing else.  (V is the text
\* of the operator's line; either "\n" or println's "\r\n" is allowed here as
\* that one terminator.)
C6_ExactCommandBytes ==
  \A k \in 1..Len(txLog) :
    (/\ txLog[k].src \in {"name", "pswd"} /\ pc # "loop"
     /\ SetterReadFullLine /\ Body(curLine) # <<>>) =>
      LET V == Body(curLine) IN
        txLog[k].bytes \in {Prefix(txLog[k].src) \o V \o <<NL>>,
                            Prefix(txLog[k].src) \o V \o <<LF, NL>>}

\* C7: a line whose first character is neither 'N' nor 'P' is forwarded to bt
\* exactly as the operator sent it (its text, then line-ending bytes only),
\* and the captured reply is printed whatever the classification.
C7_RawForwardedUnmodified ==
  handler = "raw" =>
    LET b == txLog[2].bytes IN
    /\ Body(b) = Body(curLine)
    /\ \A k \in (Len(Body(b)) + 1)..Len(b) : b[k] \in {LF, NL}
    /\ pc = "iter_end" => out[Len(out)] = Line("reply", response)

\* C8: each readLineSerial call returns the whole line the operator sent, for
\* every timing of the arrival of its bytes.
C8_ReadReturnsFullLine ==
  /\ pc = "dispatch" =>
       (len = Len(curLine) /\ opWire = <<>> /\ serialRx = <<>>)
  /\ pc = "set_check" =>
       (sLen = Len(curLine) /\ opWire = <<>> /\ serialRx = <<>>)

\* C9: after a successful probe, as long as no operator byte is available the
\* sketch stays at the wait of line 206: no dispatch, no handler, no byte
\* written to bt, no new iteration.
C9_BlocksWithoutInput ==
  [][(pc = "menu_wait" /\ serialRx = <<>> /\ serialRx' = <<>>) =>
       (pc' = "menu_wait" /\ UNCHANGED prog)]_vars

\* the probe succeeded, the menu is printed and no operator byte is around
C9_Witness ==
  /\ pc = "menu_wait" /\ serialRx = <<>> /\ opWire = <<>>
  /\ StartsWithOK(r) /\ out = MenuShown /\ Len(txLog) = 1

\* the lines printed in the NOT_READY branch
HelpShown == dislay_help_enabl_ATMode \o <<Text("retry_3s")>>

\* the probe of an iteration has just been written
ProbeSent == pc = "at_wait" /\ caller = "probe" /\ i = 0 /\ Len(txLog) = 1

\* C10: if the module never produces a byte, every iteration takes the
\* NOT_READY branch (instructions and retry notice), the menu is never printed
\* and the operator never waited for, and the probe is sent again and again.
C10_SilentModuleNeverReady ==
  /\ [](silent => (~InReady /\ (pc = "iter_end" => out = HelpShown)))
  /\ ([]silent) => ([]<>ProbeSent /\ []<>(pc = "iter_end" /\ out = HelpShown))

\* a NOT_READY iteration has printed its text; the module has sent nothing
C10_Witness == silent /\ pc = "iter_end" /\ out = HelpShown /\ r = <<>>

\* the bytes of a String the C library sees: those before its first NUL
CStr(s) == SubSeq(s, 1, CStrLen(s))

\* a line of the terminal: a text of letters, then one of the four line endings
IsTerminalLine(l) ==
  \E e \in Endings :
    /\ Len(l) > Len(e)
    /\ SubSeq(l, Len(l) - Len(e) + 1, Len(l)) = e
    /\ \A k \in 1..(Len(l) - Len(e)) : l[k] \notin {NL, LF}

\* C11: a line of the terminal (a text, then no line ending, NL, CR or CR NL)
\* read by readLineSerial and passed to fixTermInput is the text followed by
\* exactly one newline.
C11_CanonicalAfterFix ==
  (fx.stage \in {"fixed", "fixed2"} /\ IsTerminalLine(fx.src)) =>
    CStr(fx.fix1) = Body(fx.src) \o <<NL>>

\* the bytes of a stream before its first byte 13
UpToFirstLF(stream) ==
  LET at == {k \in 1..Len(stream) : stream[k] = LF} IN
    IF at = {} THEN stream
    ELSE SubSeq(stream, 1, (CHOOSE k \in at : \A j \in at : k <= j) - 1)

\* C12: after readLine / readLineSerial no byte 13 is left in the buffer,
\* whatever its position (the first included): each was overwritten with
\* '\0', and the visible value is the input up to its first byte 13.
C12_TerminatorOverwritten ==
  fx.stage \in {"read", "fixed", "fixed2"} =>
    /\ \A k \in 1..Len(fx.buf) : fx.buf[k] # LF
    /\ CStr(fx.buf) = UpToFirstLF(fx.src)

\* a setter has sent its command and returned
SetterReturned ==
  handler \in {"name", "pswd"} /\ Len(txLog) = 2 /\ pc = "iter_end"

\* C13 as stated: setModuleName prints the raw response after every command
\* it sends; setPassKey prints the raw response when, and only when, its
\* command was classified a success.
C13_ReplyPrinted_AsStated ==
  SetterReturned =>
    /\ handler = "name" => out[Len(out)] = Line("reply", response)
    /\ handler = "pswd" => (Printed("reply") <=> StartsWithOK(response))

\* C13: setModuleName prints the raw response, as its last line, after every
\* command it sends, on success and on failure; setPassKey never prints the
\* raw response, on success no more than on failure.
C13_ReplyPrinted ==
  SetterReturned =>
    /\ handler = "name" => out[Len(out)] = Line("reply", response)
    /\ handler = "pswd" => ~Printed("reply")

\* setPassKey has returned from a successful command: a confirmation, no reply
C13_Witness ==
  /\ SetterReturned /\ handler = "pswd" /\ StartsWithOK(response)
  /\ Printed("passkey_is_now") /\ ~Printed("reply")

\* the confirmation of each setter
ConfirmTag(h) == IF h = "name" THEN "name_is_now" ELSE "passkey_is_now"

\* C14: a setter prints its confirmation, with the value it read, exactly when
\* it has written a command and bt_sendATCommand returned true for it; nothing
\* is confirmed before the command returns, on failure, or on rejected input,
\* and the confirmation of the other setter is never printed.
C14_ConfirmIffSuccess ==
  handler \in {"name", "pswd"} =>
    /\ Printed(ConfirmTag(handler)) <=>
         (pc = "iter_end" /\ Len(txLog) = 2 /\ StartsWithOK(response))
    /\ \A k \in 1..Len(out) :
         /\ out[k].t = ConfirmTag(handler) => out[k].v = sInput
         /\ out[k].t \in {"name_is_now", "passkey_is_now"} =>
              out[k].t = ConfirmTag(handler)

\* setModuleName has confirmed the value "N" after a successful command
C14_Witness ==
  /\ SetterReturned /\ handler = "name" /\ StartsWithOK(response)
  /\ \E k \in 1..Len(out) : out[k] = Line("name_is_now", <<"N", NL>>)

\* the command a handler builds from the String it has read
CommandOf(h, u) == IF h = "raw" THEN u ELSE StrCat(Prefix(h), u)

\* C15: nothing is retried.  Between two probes at most one operator-derived
\* command is written to bt, and it stays the only one after its exchange has
\* returned, whatever the result.  Every write to bt is either the probe that
\* opens an iteration, or the one command built from input that was read (at
\* least one byte) in that same iteration.
C15_NoRetry ==
  /\ [](Len(txLog) <= 2 /\ \A k \in 2..Len(txLog) : txLog[k].src # "probe")
  /\ [][txLog' # txLog =>
         \/ /\ pc = "loop"
            /\ txLog' = <<[src |-> "probe", bytes |-> Println(<<"A", "T">>)]>>
         \/ /\ pc = "dispatch" /\ len >= 1 /\ Len(txLog) = 1
            /\ txLog' = Append(txLog, [src |-> "raw",
                                        bytes |-> Println(CommandOf("raw", userInput'))])
         \/ /\ pc = "set_check" /\ sLen >= 1 /\ Len(txLog) = 1
            /\ txLog' = Append(txLog, [src |-> handler,
                                        bytes |-> Println(CommandOf(handler, sInput'))])]_vars

\* a raw command got no reply within the wait: it has been written once, the
\* handler has returned, and the next write will be the probe
C15_Witness ==
  /\ pc = "iter_end" /\ handler = "raw" /\ Len(txLog) = 2
  /\ response = <<>> /\ ~ok

\* the String ends, for the C library, with a newline: a '\n' followed by the
\* end of the String or by '\0', and neither '\n' nor '\0' before it
EndsWithNewline(s) ==
  LET n == FixScan(s) IN CharAt(s, n) = NL /\ CharAt(s, n + 1) = NUL

\* C16: fixTermInput is idempotent.  On a String that already ends with a
\* newline it changes no byte up to and including that newline, and on every
\* String a second application changes nothing.
C16_FixIdempotent ==
  /\ (fx.stage \in {"fixed", "fixed2"} /\ EndsWithNewline(fx.buf)) =>
       LET n == FixScan(fx.buf) IN
         SubSeq(fx.fix1, 1, n + 1) = SubSeq(fx.buf, 1, n + 1)
  /\ fx.stage = "fixed2" => fx.fix2 = fx.fix1

\* the line "A\r\n": read as A '\0' '\n', fixed to A '\n' '\0', and fixed again
C16_Witness ==
  /\ fx.stage = "fixed2" /\ fx.buf = <<"A", NUL, NL>>
  /\ fx.fix1 = <<"A", NL, NUL>> /\ fx.fix2 = fx.fix1

\* the bytes the module sent in answer to the command of the current
\* exchange: everything read or still outstanding, less the `old` bytes that
\* were already outstanding when the command was written
ReplyToCurrent ==
  LET all == response \o btRx \o btWire IN SubSeq(all, old + 1, Len(all))

\* C17: the response bt_sendATCommand classifies holds only bytes the module
\* sent after the command was written: no byte that was already outstanding
\* at that moment (a late reply to an earlier command) is captured, and a
\* probe is classified a success only on its own reply.
C17_OnlyOwnReply ==
  pc = "at_ret" =>
    /\ response # <<>> => old = 0
    /\ (caller = "probe" /\ ok) => StartsWithOK(ReplyToCurrent)

\* C18: when the reply to a command begins with "OK" and its first byte was
\* available when the wait loop ended, bt_sendATCommand returns true, however
\* the rest of the reply arrives.
C18_OKReplySucceeds ==
  (/\ pc = "at_ret" /\ old = 0 /\ inTime
   /\ StartsWithOK(ReplyToCurrent)) => ok

====
